---- MODULE Spec2Model ----
(***************************************************************************)
(* Model of the OCI registry client of eunanio/devkit (pkg/oci/opts.go,    *)
(* pkg/oci/types.go).                                                      *)
(*                                                                         *)
(* A Go string that the client formats or parses is a sequence of pieces   *)
(* (TLC strings): the pieces of a formatted endpoint are the literal parts *)
(* of the format and the renderings of its operands, so that the URL       *)
(* parser of net/url can be modelled on what the formatter produced.       *)
(* Str flattens a piece sequence to the text it stands for.                *)
(*                                                                         *)
(* An operation (PushBlob, PullBlob, PullManifest, PushManifest) runs in a *)
(* goroutine t; it blocks in client.Do, and DoReturns(t) is the step in    *)
(* which that call returns and the operation runs on to its next client.Do *)
(* or to its return.  GetCredentials hands the client's own pointer to the *)
(* caller, so the model keeps apart the object the client points to and an *)
(* object only the caller still points to.                                 *)
(***************************************************************************)
EXTENDS Integers, Sequences, FiniteSets, TLC

VARIABLES
    cred,      \* the object OciClient.Credentials points to, or NilCreds
    held,      \* the pointer a caller got from GetCredentials: "nil", or
               \* "client" (the object the client points to), or "former"
               \* (an object the client pointed to when the caller got it)
    former,    \* the object a "former" pointer points to
    lastSet,   \* history: the call that installed the client's credentials
    local,     \* a variable v of type OciCredentials that a caller owns
    th,        \* goroutine -> the operation it runs and where it stands
    ref,       \* a Tag in a caller, and what its methods returned for it
    proc       \* exec.Cmd.ExecuteWithStream: the runner, the child, the pipes

vars == <<cred, held, former, lastSet, local, th, ref, proc>>

\* the state outside the registry client
OtherVars == <<ref, proc>>

(***************************************************************************)
(* Bounds and input sets.                                                  *)
(***************************************************************************)
Threads == {"g1"}

Hosts == {"", "registry.example.org"}

Namespaces == {"", "library"}

Names == {"nginx"}

Versions == {"latest"}

Tags == [Host : Hosts, Name : Names, Namespace : Namespaces, Version : Versions]

\* a digest is algorithm:encoded (digest.Digest of go-digest)
DigestValues == {[algorithm |-> "sha256", encoded |-> "1234567890abcdef"]}

Files == {"test content"}

\* the addresses a Go build may print for &opts.Tag.Host
PtrAddrs == {"0xc000012120"}

\* user names and passwords are byte strings (base64 works on bytes)
UserU == <<117>>

PassP == <<112>>

UserU2 == <<117, 50>>

PassP2 == <<112, 50>>

UserRoot == <<114, 111, 111, 116>>

CredPairs == {<<UserU, PassP>>, <<UserU2, PassP2>>}

StatusCodes == {200, 201, 401, 404}

NIL == "<nil>"

(***************************************************************************)
(* Strings, fmt.Sprintf and net/url as the client uses them.               *)
(***************************************************************************)
\* a Go string value as pieces: the empty string has no piece
S(x) == IF x = "" THEN <<>> ELSE <<x>>

RECURSIVE Str(_)
Str(s) == IF s = <<>> THEN "" ELSE Head(s) \o Str(Tail(s))

\* operands of Sprintf: a string, or a pointer to a string (printed address)
StrArg(x) == [kind |-> "string", val |-> S(x), addr |-> ""]

PtrArg(x, a) == [kind |-> "*string", val |-> S(x), addr |-> a]

\* the verb %s applied to one operand: a string prints as itself, a *string
\* is a bad operand for %s and prints as %!s(*string=0x...)
FmtS(arg) ==
    IF arg.kind = "string" THEN arg.val
    ELSE <<"%!s(*string=", arg.addr, ")">>

RECURSIVE FmtExtra(_)
FmtExtra(args) ==
    IF args = <<>> THEN <<>>
    ELSE <<Head(args).kind \o "=">> \o Head(args).val
         \o (IF Tail(args) = <<>> THEN <<>> ELSE <<", ">>)
         \o FmtExtra(Tail(args))

\* fmt.Sprintf over a format given as its literal parts and "%s" verbs:
\* each verb consumes the next operand; a verb without operand prints
\* %!s(MISSING); operands left over print as %!(EXTRA type=value, ...)
RECURSIVE Sprintf(_, _)
Sprintf(format, args) ==
    IF format = <<>>
    THEN IF args = <<>> THEN <<>>
         ELSE <<"%!(EXTRA ">> \o FmtExtra(args) \o <<")">>
    ELSE IF Head(format) = "%s"
    THEN IF args = <<>>
         THEN <<"%!s(MISSING)">> \o Sprintf(Tail(format), args)
         ELSE FmtS(Head(args)) \o Sprintf(Tail(format), Tail(args))
    ELSE <<Head(format)>> \o Sprintf(Tail(format), args)

\* pieces that hold a '%' not followed by two hex digits
BadEscapes == {"%!s(*string=", "%!(EXTRA ", "%!s(MISSING)"}

\* pieces that begin the path of a URL
PathStarts == {"/", "/v2/", "/upload/location"}

\* net/url.Parse as http.NewRequest calls it: an invalid percent escape in
\* the host or the path is an error; otherwise scheme and host are split off
ParseURL(raw) ==
    IF \E i \in 1..Len(raw) : raw[i] \in BadEscapes
    THEN [ok |-> FALSE, scheme |-> "", host |-> "",
          err |-> "parse \"" \o Str(raw) \o "\": invalid URL escape"]
    ELSE LET hasScheme == Len(raw) >= 2 /\ raw[2] = "://"
         IN [ok |-> TRUE,
             scheme |-> IF hasScheme THEN raw[1] ELSE "",
             host |-> IF hasScheme /\ Len(raw) >= 3 /\ raw[3] \notin PathStarts
                      THEN raw[3] ELSE "",
             err |-> NIL]

\* the standard base64 alphabet (encoding/base64.StdEncoding)
B64Chars ==
    <<"A","B","C","D","E","F","G","H","I","J","K","L","M","N","O","P",
      "Q","R","S","T","U","V","W","X","Y","Z","a","b","c","d","e","f",
      "g","h","i","j","k","l","m","n","o","p","q","r","s","t","u","v",
      "w","x","y","z","0","1","2","3","4","5","6","7","8","9","+","/">>

B64(n) == B64Chars[n + 1]

\* base64.StdEncoding.EncodeToString: three bytes to four sextets, padded
RECURSIVE Base64(_)
Base64(b) ==
    IF Len(b) = 0 THEN ""
    ELSE IF Len(b) = 1
    THEN B64(b[1] \div 4) \o B64((b[1] % 4) * 16) \o "=="
    ELSE IF Len(b) = 2
    THEN B64(b[1] \div 4) \o B64((b[1] % 4) * 16 + b[2] \div 16)
         \o B64((b[2] % 16) * 4) \o "="
    ELSE B64(b[1] \div 4) \o B64((b[1] % 4) * 16 + b[2] \div 16)
         \o B64((b[2] % 16) * 4 + b[3] \div 64) \o B64(b[3] % 64)
         \o Base64(SubSeq(b, 4, Len(b)))

Digits == <<"0","1","2","3","4","5","6","7","8","9">>

\* fmt.Sprintf("%d", n) for n >= 0
RECURSIVE Itoa(_)
Itoa(n) == IF n < 10 THEN Digits[n + 1]
           ELSE Itoa(n \div 10) \o Digits[(n % 10) + 1]

\* resp.Status as a Go server sends it: code and reason phrase
StatusText(code) ==
    CASE code = 200 -> "200 OK"
      [] code = 201 -> "201 Created"
      [] code = 202 -> "202 Accepted"
      [] code = 401 -> "401 Unauthorized"
      [] code = 404 -> "404 Not Found"
      [] OTHER -> Itoa(code)

(***************************************************************************)
(* Manifests and their JSON form.  A manifest is modelled by its schema    *)
(* version and media type; config and layers keep their zero values.       *)
(***************************************************************************)
MediaTypeImageManifest == "application/vnd.oci.image.manifest.v1+json"

ZeroManifest == [schemaVersion |-> 0, mediaType |-> ""]

Manifests == {ZeroManifest,
              [schemaVersion |-> 2, mediaType |-> MediaTypeImageManifest]}

\* json.Marshal(*spec.Manifest): mediaType is omitted when empty
Marshal(m) ==
    "{\"schemaVersion\":" \o Itoa(m.schemaVersion)
    \o (IF m.mediaType = "" THEN ""
        ELSE ",\"mediaType\":\"" \o m.mediaType \o "\"")
    \o ",\"config\":{\"mediaType\":\"\",\"digest\":\"\",\"size\":0}"
    \o ",\"layers\":null}"

\* json.Unmarshal into a spec.Manifest: the manifest whose JSON form the
\* body is, or an error when the body is no JSON
Unmarshal(body) ==
    IF \E m \in Manifests : Marshal(m) = body
    THEN [ok |-> TRUE, manifest |-> CHOOSE m \in Manifests : Marshal(m) = body,
          err |-> NIL]
    ELSE [ok |-> FALSE, manifest |-> ZeroManifest,
          err |-> "invalid character '<' looking for beginning of value"]

(***************************************************************************)
(* HTTP requests, responses and the transport.                             *)
(***************************************************************************)
NoHeader == [Authorization |-> <<>>, ContentType |-> <<>>,
             ContentLength |-> <<>>, Accept |-> <<>>]

\* http.NewRequest: parses the URL; the request starts without headers
NewRequest(method, raw, body) ==
    LET u == ParseURL(raw)
    IN [ok |-> u.ok, err |-> u.err,
        req |-> [method |-> method, url |-> Str(raw), scheme |-> u.scheme,
                 host |-> u.host, header |-> NoHeader, body |-> body]]

\* req.Header.Add(key, value): appends value to the values of key
HeaderAdd(req, key, value) ==
    [req EXCEPT !.header[key] = Append(@, value)]

\* what the registry answers, or a transport failure (ok = FALSE)
Response(code, location, body, readOK) ==
    [ok |-> TRUE, code |-> code, status |-> StatusText(code),
     location |-> location, body |-> body, readOK |-> readOK, err |-> NIL]

TransportFailure(cause) ==
    [ok |-> FALSE, code |-> 0, status |-> "", location |-> <<>>, body |-> "",
     readOK |-> FALSE, err |-> cause]

OpName(method) ==
    CASE method = "GET" -> "Get"
      [] method = "PUT" -> "Put"
      [] method = "HEAD" -> "Head"

\* http.Client.Do: a URL without http(s) scheme or without host never
\* reaches the network; otherwise the registry's planned answer comes back
Do(req, planned) ==
    LET urlError(cause) ==
            TransportFailure(OpName(req.method) \o " \"" \o req.url \o "\": "
                             \o cause)
    IN IF req.scheme \notin {"http", "https"}
       THEN urlError("unsupported protocol scheme \"" \o req.scheme \o "\"")
       ELSE IF req.host = ""
       THEN urlError("http: no Host in request URL")
       ELSE IF ~planned.ok THEN urlError(planned.err)
       ELSE planned

(***************************************************************************)
(* The state of one invocation.                                            *)
(***************************************************************************)
ZeroTag == [Host |-> "", Name |-> "", Namespace |-> "", Version |-> ""]

ZeroDigest == [algorithm |-> "", encoded |-> ""]

\* the option structs of the four operations, merged into one record
ZeroOpts == [Digest |-> ZeroDigest, File |-> "", Name |-> "",
             Insecure |-> FALSE, Tag |-> ZeroTag, Manifest |-> ZeroManifest]

\* what a pull returns beside the error: bytes, or a manifest pointer
NoOut == [isNil |-> TRUE, bytes |-> "", manifest |-> ZeroManifest]

Idle == [pc |-> "idle", op |-> "none", opts |-> ZeroOpts, plan |-> <<>>,
         endpoint |-> <<>>, sent |-> <<>>, got |-> <<>>, open |-> 0,
         err |-> NIL, out |-> NoOut]

Started(op, opts, plan) ==
    [Idle EXCEPT !.pc = "run", !.op = op, !.opts = opts, !.plan = plan]

\* the operation returns (err, out) to its caller
Return(g, err, out) == [g EXCEPT !.pc = "done", !.err = err, !.out = out]

\* the operation calls client.Do(req) and blocks in it
Send(g, req, pc) == [g EXCEPT !.pc = pc, !.sent = Append(@, req)]

\* client.Do handed back a response: its body is open until closed
Received(g, resp) == [g EXCEPT !.got = Append(@, resp), !.open = @ + 1]

\* resp.Body.Close()
Closed(g) == [g EXCEPT !.open = @ - 1]

\* digest.Digest.String()
DigestString(d) ==
    IF d.algorithm = "" THEN "" ELSE d.algorithm \o ":" \o d.encoded

\* url.QueryEscape of a digest: the colon is escaped
QueryEscape(d) ==
    IF d.algorithm = "" THEN "" ELSE d.algorithm \o "%3A" \o d.encoded

AuthError == "unauthorized, please use nori login to authenticate"

\* if c.Credentials != nil { req.Header.Add("Authorization", ...encoded) }
WithAuth(req) ==
    IF ~cred.isNil THEN HeaderAdd(req, "Authorization", cred.encoded)
    ELSE req

(***************************************************************************)
(* PushBlob                                                                *)
(***************************************************************************)
\* mutant: PushBlob reports success when it cannot build its first request
PushBlobBegin_SwallowsError(g, addr) ==
    LET opts == g.opts
        protocol == IF opts.Insecure THEN "http" ELSE "https"
        endpoint ==
            IF opts.Tag.Namespace # ""
            THEN Sprintf(<<"%s", "://", "%s", "/v2/", "%s", "/", "%s",
                           "/blobs/uploads/">>,
                         <<StrArg(protocol), PtrArg(opts.Tag.Host, addr),
                           StrArg(opts.Tag.Namespace), StrArg(opts.Tag.Name)>>)
            ELSE Sprintf(<<"%s", "://", "%s", "/v2/", "%s",
                           "/blobs/uploads/">>,
                         <<StrArg(protocol), PtrArg(opts.Tag.Host, addr),
                           StrArg(opts.Tag.Name)>>)
        r == NewRequest("GET", endpoint, "")
        g1 == [g EXCEPT !.endpoint = endpoint]
    IN IF ~r.ok
       THEN Return(g1, NIL, NoOut)
       ELSE Send(g1, WithAuth(r.req), "do1")

\* opts.go 44-69: endpoint, first request, up to the first client.Do
PushBlobBegin(g, addr) ==
    LET opts == g.opts
        protocol == IF opts.Insecure THEN "http" ELSE "https"
        endpoint ==
            IF opts.Tag.Namespace # ""
            THEN Sprintf(<<"%s", "://", "%s", "/v2/", "%s", "/", "%s",
                           "/blobs/uploads/">>,
                         <<StrArg(protocol), PtrArg(opts.Tag.Host, addr),
                           StrArg(opts.Tag.Namespace), StrArg(opts.Tag.Name)>>)
            ELSE Sprintf(<<"%s", "://", "%s", "/v2/", "%s",
                           "/blobs/uploads/">>,
                         <<StrArg(protocol), PtrArg(opts.Tag.Host, addr),
                           StrArg(opts.Tag.Name)>>)
        r == NewRequest("GET", endpoint, "")
        g1 == [g EXCEPT !.endpoint = endpoint]
    IN IF ~r.ok
       THEN Return(g1, "error creating request: " \o r.err, NoOut)
       ELSE Send(g1, WithAuth(r.req), "do1")

\* opts.go 69-94: the init response, the upload request, the second Do
PushBlobOnInit(g, resp) ==
    IF ~resp.ok
    THEN Return(g, "error sending request: " \o resp.err, NoOut)
    ELSE LET g1 == Received(g, resp)
         IN IF resp.code # 202
            THEN Return(g1, "failed to push blob: " \o resp.status, NoOut)
            ELSE LET location == resp.location
                     r == NewRequest("PUT", location, g.opts.File)
                     req1 == HeaderAdd(r.req, "ContentType",
                                       "application/octet-stream")
                     req2 == HeaderAdd(req1, "ContentLength",
                                       Itoa(Len(g.opts.File)))
                     req3 == [req2 EXCEPT !.url =
                                 @ \o "?digest=" \o QueryEscape(g.opts.Digest)]
                 IN IF ~r.ok
                    THEN Return(g1, "error uploading blob: " \o r.err, NoOut)
                    ELSE Send(g1, WithAuth(req3), "do2")

\* opts.go 94-105: the upload response
PushBlobOnPut(g, resp) ==
    IF ~resp.ok
    THEN Return(g, resp.err, NoOut)
    ELSE LET g1 == Received(g, resp)
         IN IF resp.code # 201
            THEN IF resp.code = 401
                 THEN Return(g1, AuthError, NoOut)
                 ELSE Return(g1, "failed to push blob: " \o resp.status, NoOut)
            ELSE Return(g1, NIL, NoOut)

(***************************************************************************)
(* PullBlob                                                                *)
(***************************************************************************)
\* opts.go 108-126
PullBlobBegin(g) ==
    LET opts == g.opts
        endpoint ==
            IF opts.Tag.Namespace # ""
            THEN Sprintf(<<"https", "://", "%s", "/v2/", "%s", "/", "%s",
                           "/blobs/", "%s">>,
                         <<StrArg(opts.Tag.Host), StrArg(opts.Tag.Namespace),
                           StrArg(opts.Tag.Name),
                           StrArg(DigestString(opts.Digest))>>)
            ELSE Sprintf(<<"https", "://", "%s", "/v2/", "%s", "/blobs/",
                           "%s">>,
                         <<StrArg(opts.Tag.Host), StrArg(opts.Tag.Name),
                           StrArg(DigestString(opts.Digest))>>)
        r == NewRequest("GET", endpoint, "")
        g1 == [g EXCEPT !.endpoint = endpoint]
    IN IF ~r.ok
       THEN Return(g1, "error creating request: " \o r.err, NoOut)
       ELSE Send(g1, WithAuth(r.req), "do1")

\* mutant: PullBlob without the 401 branch of its status check
PullBlobOnGet_NoAuthBranch(g, resp) ==
    IF ~resp.ok
    THEN Return(g, "error sending request: " \o resp.err, NoOut)
    ELSE LET g1 == Received(g, resp)
         IN IF resp.code # 200
            THEN Return(g1, "failed to pull blob: " \o resp.status, NoOut)
            ELSE IF ~resp.readOK
            THEN Return(Closed(g1), "error reading blob: unexpected EOF", NoOut)
            ELSE Return(Closed(g1), NIL,
                        [NoOut EXCEPT !.isNil = FALSE, !.bytes = resp.body])

\* opts.go 126-145: the body is closed (deferred) on the 200 path only
PullBlobOnGet(g, resp) ==
    IF ~resp.ok
    THEN Return(g, "error sending request: " \o resp.err, NoOut)
    ELSE LET g1 == Received(g, resp)
         IN IF resp.code # 200
            THEN IF resp.code = 401
                 THEN Return(g1, AuthError, NoOut)
                 ELSE Return(g1, "failed to pull blob: " \o resp.status, NoOut)
            ELSE IF ~resp.readOK
            THEN Return(Closed(g1), "error reading blob: unexpected EOF", NoOut)
            ELSE Return(Closed(g1), NIL,
                        [NoOut EXCEPT !.isNil = FALSE, !.bytes = resp.body])

(***************************************************************************)
(* PullManifest                                                            *)
(***************************************************************************)
\* mutant: PullManifest without its check of tag.Host
PullManifestBegin_NoHostCheck(g) ==
    LET tag == g.opts.Tag
        api_endpoint ==
            IF tag.Namespace # ""
            THEN Sprintf(<<"https", "://", "%s", "/", "%s", "/", "%s", "/v2/",
                           "%s", "/", "%s", "/manifests/", "%s">>,
                         <<StrArg(tag.Host), StrArg(tag.Namespace),
                           StrArg(tag.Name), StrArg(tag.Version),
                           StrArg(tag.Name), StrArg(tag.Version)>>)
            ELSE Sprintf(<<"https", "://", "%s", "/v2/", "%s", "/", "%s",
                           "/manifests/", "%s">>,
                         <<StrArg(tag.Host), StrArg(tag.Name),
                           StrArg(tag.Version), StrArg(tag.Name),
                           StrArg(tag.Version)>>)
        r == NewRequest("GET", api_endpoint, "")
        g1 == [g EXCEPT !.endpoint = api_endpoint]
    IN IF ~r.ok
       THEN Return(g1, r.err, NoOut)
       ELSE Send(g1, WithAuth(HeaderAdd(r.req, "Accept",
                                        MediaTypeImageManifest)), "do1")

\* opts.go 147-170: the host check, the endpoint, the request
PullManifestBegin(g) ==
    LET tag == g.opts.Tag
        api_endpoint ==
            IF tag.Namespace # ""
            THEN Sprintf(<<"https", "://", "%s", "/", "%s", "/", "%s", "/v2/",
                           "%s", "/", "%s", "/manifests/", "%s">>,
                         <<StrArg(tag.Host), StrArg(tag.Namespace),
                           StrArg(tag.Name), StrArg(tag.Version),
                           StrArg(tag.Name), StrArg(tag.Version)>>)
            ELSE Sprintf(<<"https", "://", "%s", "/v2/", "%s", "/", "%s",
                           "/manifests/", "%s">>,
                         <<StrArg(tag.Host), StrArg(tag.Name),
                           StrArg(tag.Version), StrArg(tag.Name),
                           StrArg(tag.Version)>>)
        r == NewRequest("GET", api_endpoint, "")
        g1 == [g EXCEPT !.endpoint = api_endpoint]
    IN IF tag.Host = ""
       THEN Return(g, "Host is required, but not provided", NoOut)
       ELSE IF ~r.ok
       THEN Return(g1, r.err, NoOut)
       ELSE Send(g1, WithAuth(HeaderAdd(r.req, "Accept",
                                        MediaTypeImageManifest)), "do1")

\* opts.go 170-197: the body is closed (deferred) on every path
PullManifestOnGet(g, resp) ==
    IF ~resp.ok
    THEN Return(g, resp.err, NoOut)
    ELSE LET g1 == Received(g, resp)
             m == Unmarshal(resp.body)
         IN IF resp.code # 200
            THEN IF resp.code = 401
                 THEN Return(Closed(g1), AuthError, NoOut)
                 ELSE Return(Closed(g1),
                             "cannot to pull manifest: " \o resp.status, NoOut)
            ELSE IF ~resp.readOK
            THEN Return(Closed(g1), "unexpected EOF", NoOut)
            ELSE IF ~m.ok
            THEN Return(Closed(g1), m.err, NoOut)
            ELSE Return(Closed(g1), NIL,
                        [NoOut EXCEPT !.isNil = FALSE, !.manifest = m.manifest])

(***************************************************************************)
(* PushManifest                                                            *)
(***************************************************************************)
\* mutant: PushManifest formats the namespace segment for every reference
PushManifestBegin_AlwaysNamespace(g) ==
    LET opts == g.opts
        jsonBytes == Marshal(opts.Manifest)
        protocol == IF opts.Insecure THEN "http" ELSE "https"
        endpoint ==
            Sprintf(<<"%s", "://", "%s", "/v2/", "%s", "/", "%s",
                      "/manifests/", "%s">>,
                    <<StrArg(protocol), StrArg(opts.Tag.Host),
                      StrArg(opts.Tag.Namespace), StrArg(opts.Tag.Name),
                      StrArg(opts.Tag.Version)>>)
        r == NewRequest("HEAD", endpoint, "")
        req1 == WithAuth(r.req)
        req2 == HeaderAdd(req1, "ContentType", MediaTypeImageManifest)
        req3 == HeaderAdd(req2, "ContentLength", Itoa(Len(jsonBytes)))
        g1 == [g EXCEPT !.endpoint = endpoint]
    IN IF ~r.ok
       THEN Return(g1, "error creating request: " \o r.err, NoOut)
       ELSE Send(g1, req3, "do1")

\* opts.go 199-232: serialize, endpoint, the HEAD request
PushManifestBegin(g) ==
    LET opts == g.opts
        jsonBytes == Marshal(opts.Manifest)
        protocol == IF opts.Insecure THEN "http" ELSE "https"
        endpoint ==
            IF opts.Tag.Namespace # ""
            THEN Sprintf(<<"%s", "://", "%s", "/v2/", "%s", "/", "%s",
                           "/manifests/", "%s">>,
                         <<StrArg(protocol), StrArg(opts.Tag.Host),
                           StrArg(opts.Tag.Namespace), StrArg(opts.Tag.Name),
                           StrArg(opts.Tag.Version)>>)
            ELSE Sprintf(<<"%s", "://", "%s", "/v2/", "%s", "/manifests/",
                           "%s">>,
                         <<StrArg(protocol), StrArg(opts.Tag.Host),
                           StrArg(opts.Tag.Name), StrArg(opts.Tag.Version)>>)
        r == NewRequest("HEAD", endpoint, "")
        req1 == WithAuth(r.req)
        req2 == HeaderAdd(req1, "ContentType", MediaTypeImageManifest)
        req3 == HeaderAdd(req2, "ContentLength", Itoa(Len(jsonBytes)))
        g1 == [g EXCEPT !.endpoint = endpoint]
    IN IF ~r.ok
       THEN Return(g1, "error creating request: " \o r.err, NoOut)
       ELSE Send(g1, req3, "do1")

\* mutant: PushManifest uploads whatever the HEAD response says
PushManifestOnHead_PutAlways(g, resp) ==
    IF ~resp.ok
    THEN Return(g, "error sending request: " \o resp.err, NoOut)
    ELSE LET g1 == Received(g, resp)
             jsonBytes == Marshal(g.opts.Manifest)
             r == NewRequest("PUT", g.endpoint, jsonBytes)
             req1 == HeaderAdd(r.req, "ContentType", MediaTypeImageManifest)
             req2 == HeaderAdd(req1, "ContentLength", Itoa(Len(jsonBytes)))
         IN IF ~r.ok
            THEN Return(Closed(g1), "error creating request: " \o r.err, NoOut)
            ELSE Send(g1, WithAuth(req2), "do2")

\* mutant: PushManifest sends its HEAD again when the transport fails
PushManifestOnHead_Retries(g, resp) ==
    IF ~resp.ok
    THEN IF Len(g.sent) = 1
         THEN Send(g, g.sent[1], "do1")
         ELSE Return(g, "error sending request: " \o resp.err, NoOut)
    ELSE LET g1 == Received(g, resp)
             jsonBytes == Marshal(g.opts.Manifest)
             r == NewRequest("PUT", g.endpoint, jsonBytes)
             req1 == HeaderAdd(r.req, "ContentType", MediaTypeImageManifest)
             req2 == HeaderAdd(req1, "ContentLength", Itoa(Len(jsonBytes)))
         IN IF resp.code # 200
            THEN IF ~r.ok
                 THEN Return(Closed(g1), "error creating request: " \o r.err,
                             NoOut)
                 ELSE Send(g1, WithAuth(req2), "do2")
            ELSE Return(Closed(g1), NIL, NoOut)

\* mutant: PushManifest sends its PUT without the Authorization header
PushManifestOnHead_PutWithoutAuth(g, resp) ==
    IF ~resp.ok
    THEN Return(g, "error sending request: " \o resp.err, NoOut)
    ELSE LET g1 == Received(g, resp)
             jsonBytes == Marshal(g.opts.Manifest)
             r == NewRequest("PUT", g.endpoint, jsonBytes)
             req1 == HeaderAdd(r.req, "ContentType", MediaTypeImageManifest)
             req2 == HeaderAdd(req1, "ContentLength", Itoa(Len(jsonBytes)))
         IN IF resp.code # 200
            THEN IF ~r.ok
                 THEN Return(Closed(g1), "error creating request: " \o r.err,
                             NoOut)
                 ELSE Send(g1, req2, "do2")
            ELSE Return(Closed(g1), NIL, NoOut)

\* opts.go 232-252: the HEAD response; its body is closed (deferred) when
\* the function returns.  Any status but 200 leads to the PUT.
PushManifestOnHead(g, resp) ==
    IF ~resp.ok
    THEN Return(g, "error sending request: " \o resp.err, NoOut)
    ELSE LET g1 == Received(g, resp)
             jsonBytes == Marshal(g.opts.Manifest)
             r == NewRequest("PUT", g.endpoint, jsonBytes)
             req1 == HeaderAdd(r.req, "ContentType", MediaTypeImageManifest)
             req2 == HeaderAdd(req1, "ContentLength", Itoa(Len(jsonBytes)))
         IN IF resp.code # 200
            THEN IF ~r.ok
                 THEN Return(Closed(g1), "error creating request: " \o r.err,
                             NoOut)
                 ELSE Send(g1, WithAuth(req2), "do2")
            ELSE Return(Closed(g1), NIL, NoOut)

\* mutant: PushManifest expects 200, not 201, from the PUT
PushManifestOnPut_Expects200(g, resp) ==
    IF ~resp.ok
    THEN Return(Closed(g), "error sending request: " \o resp.err, NoOut)
    ELSE LET g1 == Closed(Received(g, resp))
         IN IF resp.code # 200
            THEN IF resp.code = 401
                 THEN Return(g1, AuthError, NoOut)
                 ELSE Return(g1, "failed to push manifest: " \o resp.status,
                             NoOut)
            ELSE Return(g1, NIL, NoOut)

\* opts.go 252-266: the PUT response; the deferred Close closes the body of
\* the HEAD response, the one resp named when defer ran
PushManifestOnPut(g, resp) ==
    IF ~resp.ok
    THEN Return(Closed(g), "error sending request: " \o resp.err, NoOut)
    ELSE LET g1 == Closed(Received(g, resp))
         IN IF resp.code # 201
            THEN IF resp.code = 401
                 THEN Return(g1, AuthError, NoOut)
                 ELSE Return(g1, "failed to push manifest: " \o resp.status,
                             NoOut)
            ELSE Return(g1, NIL, NoOut)

(***************************************************************************)
(* Credentials                                                             *)
(***************************************************************************)
\* the header value SetBasicAuth derives from a user name and a password
BasicAuthHeader(username, password) ==
    LET userpass == username \o <<58>> \o password
        encoded == Base64(userpass)
    IN "Basic " \o encoded

\* the nil pointer, as the value of c.Credentials
NilCreds == [isNil |-> TRUE, Username |-> <<>>, Password |-> <<>>,
             encoded |-> ""]

\* c.Credentials = &OciCredentials{...}: the client points to a new object;
\* a pointer the caller got earlier keeps pointing to the former object
Install(obj) ==
    /\ cred' = [isNil |-> FALSE, Username |-> obj.Username,
                Password |-> obj.Password, encoded |-> obj.encoded]
    /\ held' = IF held = "client" THEN "former" ELSE held
    /\ former' = IF held = "client" THEN cred ELSE former

\* mutant: SetBasicAuth keeps credentials that are already set
SetBasicAuth_KeepsFirst(username, password) ==
    /\ IF cred.isNil
       THEN Install([Username |-> username, Password |-> password,
                     encoded |-> BasicAuthHeader(username, password)])
       ELSE UNCHANGED <<cred, held, former>>
    /\ lastSet' = [by |-> "SetBasicAuth", Username |-> username,
                   Password |-> password]
    /\ local' = [local EXCEPT !.shared = FALSE]
    /\ UNCHANGED <<th, OtherVars>>

\* opts.go 268-277
SetBasicAuth(username, password) ==
    /\ Install([Username |-> username, Password |-> password,
                encoded |-> BasicAuthHeader(username, password)])
    /\ lastSet' = [by |-> "SetBasicAuth", Username |-> username,
                   Password |-> password]
    /\ local' = [local EXCEPT !.shared = FALSE]
    /\ UNCHANGED <<th, OtherVars>>

\* mutant: SetCredentials takes the address of the caller's variable
\* instead of a copy of its value
SetCredentials_KeepsAddress(creds) ==
    /\ Install(creds)
    /\ lastSet' = [by |-> "SetCredentials", Username |-> creds.Username,
                   Password |-> creds.Password]
    /\ local' = [local EXCEPT !.shared = TRUE]
    /\ UNCHANGED <<th, OtherVars>>

\* opts.go 283-285: the parameter is a copy of the caller's value, and the
\* client keeps the address of that copy, not of the caller's variable
SetCredentials(creds) ==
    /\ Install(creds)
    /\ lastSet' = [by |-> "SetCredentials", Username |-> creds.Username,
                   Password |-> creds.Password]
    /\ local' = [local EXCEPT !.shared = FALSE]
    /\ UNCHANGED <<th, OtherVars>>

\* opts.go 279-281: the caller gets the client's own pointer
GetCredentials ==
    /\ held' = IF cred.isNil THEN "nil" ELSE "client"
    /\ former' = NilCreds
    /\ UNCHANGED <<cred, lastSet, local, th, OtherVars>>

\* the caller assigns to the exported field Username through the pointer it
\* holds: it changes the client's object only while the client still points
\* to that object
WriteUsername(username) ==
    /\ held # "nil"
    /\ cred' = IF held = "client" THEN [cred EXCEPT !.Username = username]
               ELSE cred
    /\ former' = IF held = "former" THEN [former EXCEPT !.Username = username]
                 ELSE former
    /\ UNCHANGED <<held, lastSet, local, th, OtherVars>>

\* the values a caller outside the package can build: the unexported field
\* encoded keeps its zero value
CallerCredentials ==
    {[Username |-> UserU, Password |-> PassP, encoded |-> ""]}

\* var v OciCredentials in a caller: the zero value; shared tells whether
\* c.Credentials is the address of v (writes to v then show in the client)
ZeroLocal == [Username |-> <<>>, Password |-> <<>>, encoded |-> "",
              shared |-> FALSE]

\* the value of v, as the argument of SetCredentials(v)
LocalValue ==
    [Username |-> local.Username, Password |-> local.Password,
     encoded |-> local.encoded]

\* v.Username, v.Password = username, password in the caller
AssignLocal(username, password) ==
    /\ local' = [local EXCEPT !.Username = username, !.Password = password]
    /\ cred' = IF local.shared
               THEN [cred EXCEPT !.Username = username, !.Password = password]
               ELSE cred
    /\ UNCHANGED <<held, former, lastSet, th, OtherVars>>

(***************************************************************************)
(* The registry's answers an invocation will get (its plan).               *)
(***************************************************************************)
Locations == {<<"/upload/location">>,
              <<"http", "://", "registry.example.org", "/upload/location">>}

Failures == {TransportFailure("dial tcp: connect: connection refused")}

PlainAnswers == Failures \cup {Response(c, <<>>, "", TRUE) : c \in StatusCodes}

InitAnswers ==
    Failures
    \cup {Response(c, <<>>, "", TRUE) : c \in StatusCodes}
    \cup {Response(202, l, "", TRUE) : l \in Locations}

BlobAnswers ==
    Failures
    \cup {Response(c, <<>>, "", TRUE) : c \in StatusCodes \ {200}}
    \cup {Response(200, <<>>, f, ok) : f \in Files, ok \in BOOLEAN}

ManifestBodies == {Marshal(m) : m \in Manifests} \cup {"<html>"}

ManifestAnswers ==
    Failures
    \cup {Response(c, <<>>, "", TRUE) : c \in StatusCodes \ {200}}
    \cup {Response(200, <<>>, b, TRUE) : b \in ManifestBodies}

(***************************************************************************)
(* Actions                                                                 *)
(***************************************************************************)
CredVars == <<cred, held, former, lastSet, local>>

(***************************************************************************)
(* Tag (types.go): the rendered forms of a reference.                      *)
(***************************************************************************)
\* mutant: String looks at the host before the namespace
String_HostFirst(t) ==
    IF t.Host # ""
    THEN t.Host \o "/" \o t.Name \o ":" \o t.Version
    ELSE IF t.Namespace # ""
    THEN t.Host \o "/" \o t.Namespace \o "/" \o t.Name \o ":" \o t.Version
    ELSE t.Name \o ":" \o t.Version

\* types.go 10-20
String(t) ==
    IF t.Namespace # ""
    THEN t.Host \o "/" \o t.Namespace \o "/" \o t.Name \o ":" \o t.Version
    ELSE IF t.Host # ""
    THEN t.Host \o "/" \o t.Name \o ":" \o t.Version
    ELSE t.Name \o ":" \o t.Version

\* types.go 22-28
NamespacedName(t) ==
    IF t.Namespace # ""
    THEN t.Namespace \o "/" \o t.Name
    ELSE t.Name

\* a method of the Tag that has not been called, and one that returned
NotCalled == [called |-> FALSE, result |-> ""]

Returned(result) == [called |-> TRUE, result |-> result]

\* no Tag is being rendered
NoRef == [tag |-> ZeroTag, String |-> NotCalled, NamespacedName |-> NotCalled]

\* s := ref.tag.String()
CallString ==
    /\ ~ref.String.called
    /\ ref' = [ref EXCEPT !.String = Returned(String(ref.tag))]
    /\ UNCHANGED <<CredVars, th, proc>>

\* n := ref.tag.NamespacedName()
CallNamespacedName ==
    /\ ~ref.NamespacedName.called
    /\ ref' = [ref EXCEPT !.NamespacedName = Returned(NamespacedName(ref.tag))]
    /\ UNCHANGED <<CredVars, th, proc>>

(***************************************************************************)
(* exec.Cmd.ExecuteWithStream (pkg/exec/cmd.go): the runner starts a child *)
(* with a pipe on its standard output and one on its standard error, reads *)
(* the first to its end, then the second, then waits for the child.  The   *)
(* child writes its lines in the order of its script and exits; a write to *)
(* a full pipe blocks, a read from an empty pipe blocks until the child    *)
(* has closed it by exiting.                                               *)
(***************************************************************************)
\* lines a pipe holds before a write to it blocks
PipeCap == 2

\* lines a child writes at most
MaxWrites == 3

\* a line the child writes: to which stream, and whether it is longer than
\* the buffer of a bufio.Scanner (bufio.MaxScanTokenSize)
Writes == [to : {"stdout", "stderr"}, long : BOOLEAN]

RECURSIVE SeqsUpTo(_, _)
SeqsUpTo(set, n) ==
    IF n = 0 THEN {<<>>}
    ELSE LET shorter == SeqsUpTo(set, n - 1)
         IN shorter \cup {Append(q, x) : q \in shorter, x \in set}

Scripts == SeqsUpTo(Writes, MaxWrites)

ExitCodes == {0, 1}

ErrTooLong == "bufio.Scanner: token too long"

\* ExecuteWithStream has not been called
NoProc == [pc |-> "idle", child |-> "none", script |-> <<>>, exit |-> 0,
           stdout |-> <<>>, stderr |-> <<>>,
           scanner |-> NIL, scannerErr |-> NIL, waited |-> FALSE, err |-> NIL]

\* cmd.go 18-33: the pipes, cmd.Start; the runner goes on to scan stdout
ExecuteWithStream(script, exit, started) ==
    /\ proc.pc = "idle"
    /\ proc' = IF ~started
               THEN [proc EXCEPT !.pc = "returned",
                                 !.err = "exec: executable file not found"]
               ELSE [proc EXCEPT !.pc = "scanStdout", !.child = "running",
                                 !.script = script, !.exit = exit]
    /\ UNCHANGED <<CredVars, th, ref>>

\* the child writes its next line; the write blocks while the pipe is full
ChildWrites ==
    /\ proc.child = "running"
    /\ proc.script # <<>>
    /\ LET w == Head(proc.script)
       IN IF w.to = "stdout"
          THEN /\ Len(proc.stdout) < PipeCap
               /\ proc' = [proc EXCEPT !.stdout = Append(@, w.long),
                                       !.script = Tail(@)]
          ELSE /\ Len(proc.stderr) < PipeCap
               /\ proc' = [proc EXCEPT !.stderr = Append(@, w.long),
                                       !.script = Tail(@)]
    /\ UNCHANGED <<CredVars, th, ref>>

\* the child has written everything and exits: both pipes are closed
ChildExits ==
    /\ proc.child = "running"
    /\ proc.script = <<>>
    /\ proc' = [proc EXCEPT !.child = "exited"]
    /\ UNCHANGED <<CredVars, th, ref>>

\* cmd.go 34-38: scanner.Scan() on stdout returns: a line, which is printed,
\* or false at end of file or on a line that is too long
ScanStdout ==
    /\ proc.pc = "scanStdout"
    /\ proc.stdout # <<>> \/ proc.child = "exited"
    /\ proc' = IF proc.stdout = <<>>
               THEN [proc EXCEPT !.pc = "scanStderr"]
               ELSE IF Head(proc.stdout)
               THEN [proc EXCEPT !.pc = "scanStderr", !.stdout = Tail(@),
                                 !.scanner = ErrTooLong]
               ELSE [proc EXCEPT !.stdout = Tail(@)]
    /\ UNCHANGED <<CredVars, th, ref>>

\* cmd.go 45-57: after both loops, the scanners' errors, then cmd.Wait()
AfterScans(p) ==
    IF p.scanner # NIL
    THEN [p EXCEPT !.pc = "returned", !.err = p.scanner]
    ELSE IF p.scannerErr # NIL
    THEN [p EXCEPT !.pc = "returned", !.err = p.scannerErr]
    ELSE [p EXCEPT !.pc = "returned", !.waited = TRUE,
                   !.err = IF p.exit # 0 THEN "exit status 1" ELSE NIL]

\* cmd.go 40-57: scannerErr.Scan() on stderr returns: a line, which is
\* printed, or false, and then the function runs to its return
ScanStderr ==
    /\ proc.pc = "scanStderr"
    /\ proc.stderr # <<>> \/ proc.child = "exited"
    /\ proc' = IF proc.stderr = <<>>
               THEN AfterScans(proc)
               ELSE IF Head(proc.stderr)
               THEN AfterScans([proc EXCEPT !.stderr = Tail(@),
                                            !.scannerErr = ErrTooLong])
               ELSE [proc EXCEPT !.stderr = Tail(@)]
    /\ UNCHANGED <<CredVars, th, ref>>

PushBlob(t) ==
    /\ th[t].pc = "idle"
    /\ \E tag \in Tags, d \in DigestValues, f \in Files, insecure \in BOOLEAN,
          r1 \in InitAnswers, r2 \in PlainAnswers, addr \in PtrAddrs :
          th' = [th EXCEPT ![t] =
                    PushBlobBegin(
                        Started("PushBlob",
                                [ZeroOpts EXCEPT !.Digest = d, !.File = f,
                                                 !.Name = tag.Name,
                                                 !.Insecure = insecure,
                                                 !.Tag = tag],
                                <<r1, r2>>),
                        addr)]
    /\ UNCHANGED <<CredVars, OtherVars>>

PullBlob(t) ==
    /\ th[t].pc = "idle"
    /\ \E tag \in Tags, d \in DigestValues, r1 \in BlobAnswers :
          th' = [th EXCEPT ![t] =
                    PullBlobBegin(
                        Started("PullBlob",
                                [ZeroOpts EXCEPT !.Digest = d,
                                                 !.Name = tag.Name,
                                                 !.Tag = tag],
                                <<r1>>))]
    /\ UNCHANGED <<CredVars, OtherVars>>

PullManifest(t) ==
    /\ th[t].pc = "idle"
    /\ \E tag \in Tags, r1 \in ManifestAnswers :
          th' = [th EXCEPT ![t] =
                    PullManifestBegin(
                        Started("PullManifest", [ZeroOpts EXCEPT !.Tag = tag],
                                <<r1>>))]
    /\ UNCHANGED <<CredVars, OtherVars>>

PushManifest(t) ==
    /\ th[t].pc = "idle"
    /\ \E tag \in Tags, m \in Manifests, insecure \in BOOLEAN,
          r1 \in PlainAnswers, r2 \in PlainAnswers :
          th' = [th EXCEPT ![t] =
                    PushManifestBegin(
                        Started("PushManifest",
                                [ZeroOpts EXCEPT !.Manifest = m, !.Tag = tag,
                                                 !.Insecure = insecure],
                                <<r1, r2>>))]
    /\ UNCHANGED <<CredVars, OtherVars>>

\* the operation of goroutine g goes on with the outcome of its client.Do
Continue(g, resp) ==
    CASE g.op = "PushBlob" /\ g.pc = "do1" -> PushBlobOnInit(g, resp)
      [] g.op = "PushBlob" /\ g.pc = "do2" -> PushBlobOnPut(g, resp)
      [] g.op = "PullBlob" -> PullBlobOnGet(g, resp)
      [] g.op = "PullManifest" -> PullManifestOnGet(g, resp)
      [] g.op = "PushManifest" /\ g.pc = "do1" -> PushManifestOnHead(g, resp)
      [] g.op = "PushManifest" /\ g.pc = "do2" -> PushManifestOnPut(g, resp)

\* mutant: the client keeps the request being sent in a field that all
\* goroutines share, so a goroutine may get the answer to another's request
DoReturns_SharedRequest(t) ==
    /\ th[t].pc \in {"do1", "do2"}
    /\ \E u \in DOMAIN th :
          /\ th[u].pc \in {"do1", "do2"}
          /\ LET n == Len(th[u].sent)
             IN th' = [th EXCEPT ![t] =
                          Continue(th[t], Do(th[u].sent[n], th[u].plan[n]))]
    /\ UNCHANGED <<CredVars, OtherVars>>

\* mutant: an operation that is answered 401 drops the client's credentials
DoReturns_ForgetsOnUnauthorized(t) ==
    /\ th[t].pc \in {"do1", "do2"}
    /\ LET g == th[t]
           n == Len(g.sent)
           next == Continue(g, Do(g.sent[n], g.plan[n]))
       IN /\ th' = [th EXCEPT ![t] = next]
          /\ cred' = IF next.err = AuthError THEN NilCreds ELSE cred
    /\ UNCHANGED <<held, former, lastSet, local, OtherVars>>

\* client.Do returns in goroutine t
DoReturns(t) ==
    /\ th[t].pc \in {"do1", "do2"}
    /\ LET g == th[t]
           n == Len(g.sent)
       IN th' = [th EXCEPT ![t] = Continue(g, Do(g.sent[n], g.plan[n]))]
    /\ UNCHANGED <<CredVars, OtherVars>>

\* the caller has the result; the goroutine is free for the next call
Finish(t) ==
    /\ th[t].pc = "done"
    /\ th' = [th EXCEPT ![t] = Idle]
    /\ UNCHANGED <<CredVars, OtherVars>>

Init ==
    /\ cred = NilCreds
    /\ held = "nil"
    /\ former = NilCreds
    /\ lastSet = [by |-> "none", Username |-> <<>>, Password |-> <<>>]
    /\ local = ZeroLocal
    /\ th = [t \in Threads |-> Idle]
    /\ ref = NoRef
    /\ proc = NoProc

Next ==
    \/ \E t \in Threads : PushBlob(t)
    \/ \E t \in Threads : PullBlob(t)
    \/ \E t \in Threads : PullManifest(t)
    \/ \E t \in Threads : PushManifest(t)
    \/ \E t \in Threads : DoReturns(t)
    \/ \E t \in Threads : Finish(t)
    \/ \E c \in CredPairs : SetBasicAuth(c[1], c[2])
    \/ \E creds \in CallerCredentials : SetCredentials(creds)
    \/ GetCredentials
    \/ \E u \in {UserRoot} : WriteUsername(u)

Spec == Init /\ [][Next]_vars

(***************************************************************************)
(* Two goroutines on one client.  Credentials are set only while no        *)
(* operation is in flight; the inputs are the references with host and     *)
(* namespace.                                                              *)
(***************************************************************************)
Goroutines == {"g1", "g2"}

\* the invocations the two goroutines make
Concurrent(g) ==
    /\ g.opts.Tag.Host # ""
    /\ g.opts.Tag.Namespace # ""
    /\ ~g.opts.Insecure
    /\ g.op = "PushManifest" => g.opts.Manifest # ZeroManifest
    /\ \A i \in 1..Len(g.plan) : g.plan[i].location \in {<<>>, <<"/upload/location">>}

InitConcurrent ==
    /\ cred = NilCreds
    /\ held = "nil"
    /\ former = NilCreds
    /\ lastSet = [by |-> "none", Username |-> <<>>, Password |-> <<>>]
    /\ local = ZeroLocal
    /\ th = [t \in Goroutines |-> Idle]
    /\ ref = NoRef
    /\ proc = NoProc

NextConcurrent ==
    \/ \E t \in Goroutines : PushBlob(t) /\ Concurrent(th'[t])
    \/ \E t \in Goroutines : PullBlob(t) /\ Concurrent(th'[t])
    \/ \E t \in Goroutines : PullManifest(t) /\ Concurrent(th'[t])
    \/ \E t \in Goroutines : PushManifest(t) /\ Concurrent(th'[t])
    \/ \E t \in Goroutines : DoReturns(t)
    \/ \E t \in Goroutines : Finish(t)
    \/ /\ \A t \in Goroutines : th[t].pc = "idle"
       /\ SetBasicAuth(UserU, PassP)

SpecConcurrent == InitConcurrent /\ [][NextConcurrent]_vars


(***************************************************************************)
(* A caller that keeps credentials in a variable of its own, passes it to  *)
(* SetCredentials and goes on writing to it.                               *)
(***************************************************************************)
LocalPairs == {<<UserU, PassP>>, <<UserRoot, PassP2>>}

NextCaller ==
    \/ \E c \in LocalPairs : AssignLocal(c[1], c[2])
    \/ SetCredentials(LocalValue)
    \/ \E c \in CredPairs : SetBasicAuth(c[1], c[2])
    \/ GetCredentials
    \/ \E u \in {UserRoot} : WriteUsername(u)
    \/ \E t \in Threads : PullBlob(t) /\ Concurrent(th'[t])
    \/ \E t \in Threads : DoReturns(t)
    \/ \E t \in Threads : Finish(t)

SpecCaller == Init /\ [][NextCaller]_vars

(***************************************************************************)
(* A caller that renders references.                                       *)
(***************************************************************************)
RefHosts == {"", "registry.example.org", "localhost:5000"}

RefNamespaces == {"", "library", "team/app"}

RefNames == {"nginx", "alpine"}

RefVersions == {"latest", "1.0"}

RefTags ==
    [Host : RefHosts, Name : RefNames, Namespace : RefNamespaces,
     Version : RefVersions]

InitTag ==
    /\ cred = NilCreds
    /\ held = "nil"
    /\ former = NilCreds
    /\ lastSet = [by |-> "none", Username |-> <<>>, Password |-> <<>>]
    /\ local = ZeroLocal
    /\ th = [t \in Threads |-> Idle]
    /\ ref \in {[NoRef EXCEPT !.tag = t] : t \in RefTags}
    /\ proc = NoProc

NextTag ==
    \/ CallString
    \/ CallNamespacedName

SpecTag == InitTag /\ [][NextTag]_vars

(***************************************************************************)
(* The process runner with a child; the scheduler runs the child and the   *)
(* runner whenever they can take a step.                                   *)
(***************************************************************************)
NextRunner ==
    \/ \E script \in Scripts, exit \in ExitCodes, started \in BOOLEAN :
          ExecuteWithStream(script, exit, started)
    \/ ChildWrites
    \/ ChildExits
    \/ ScanStdout
    \/ ScanStderr

SpecRunner ==
    /\ Init
    /\ [][NextRunner]_vars
    /\ WF_vars(ChildWrites) /\ WF_vars(ChildExits)
    /\ WF_vars(ScanStdout) /\ WF_vars(ScanStderr)

(***************************************************************************)
(* Claims                                                                  *)
(***************************************************************************)
\* the registry would answer the i-th request of g with status code c
Planned(g, i, c) == Len(g.plan) >= i /\ g.plan[i].ok /\ g.plan[i].code = c

\* g received a response with status code c to its i-th request
Answered(g, i, c) == Len(g.got) >= i /\ g.got[i].code = c

Scheme(insecure) == IF insecure THEN "http" ELSE "https"

\* scheme://host/v2/{namespace/}name
RepositoryURL(scheme, tag) ==
    scheme \o "://" \o tag.Host \o "/v2/"
    \o (IF tag.Namespace # "" THEN tag.Namespace \o "/" ELSE "")
    \o tag.Name

\* C1: whenever the registry answers the upload-init request of PushBlob
\* with 202 and a Location header and the following PUT with 201, PushBlob
\* returns no error.
C1_PushBlobSucceeds ==
    \A t \in Threads :
        LET g == th[t]
        IN (/\ g.op = "PushBlob" /\ g.pc = "done"
            /\ Planned(g, 1, 202) /\ g.plan[1].location # <<>>
            /\ Planned(g, 2, 201))
           => g.err = NIL

\* C2: whenever the registry answers 401 to the upload-init request or to
\* the upload PUT of PushBlob, PushBlob returns the authentication failure.
C2_PushBlobUnauthorized ==
    \A t \in Threads :
        LET g == th[t]
        IN (/\ g.op = "PushBlob" /\ g.pc = "done"
            /\ \/ Planned(g, 1, 401)
               \/ Planned(g, 1, 202) /\ Planned(g, 2, 401))
           => g.err = AuthError

\* C3: once the HEAD request of a PushManifest invocation is answered with
\* 200, the invocation has sent no PUT, has returned, and returned success.
C3_HeadOkNoPut ==
    \A t \in Threads :
        LET g == th[t]
        IN (g.op = "PushManifest" /\ Answered(g, 1, 200))
           => /\ \A i \in 1..Len(g.sent) : g.sent[i].method # "PUT"
              /\ Len(g.sent) = 1
              /\ g.pc = "done"
              /\ g.err = NIL

C3_Witness ==
    \E t \in Threads :
        /\ th[t].op = "PushManifest" /\ Answered(th[t], 1, 200)
        /\ th[t].pc = "done"
        /\ th[t].opts.Manifest # ZeroManifest

\* C4: every request of PullManifest and of PushManifest for a reference
\* with a host goes to scheme://host/v2/{namespace/}name/manifests/version.
C4_ManifestEndpoint ==
    \A t \in Threads :
        LET g == th[t]
            scheme == IF g.op = "PushManifest" THEN Scheme(g.opts.Insecure)
                      ELSE "https"
        IN (g.op \in {"PullManifest", "PushManifest"} /\ g.opts.Tag.Host # "")
           => \A i \in 1..Len(g.sent) :
                 g.sent[i].url = RepositoryURL(scheme, g.opts.Tag)
                                 \o "/manifests/" \o g.opts.Tag.Version

\* C5: the endpoint PushBlob builds for its first request is
\* scheme://host/v2/{namespace/}name/blobs/uploads/ with the host of the
\* reference, and that is where the first request goes.
C5_UploadInitEndpoint ==
    \A t \in Threads :
        LET g == th[t]
            want == RepositoryURL(Scheme(g.opts.Insecure), g.opts.Tag)
                    \o "/blobs/uploads/"
        IN g.op = "PushBlob"
           => /\ Str(g.endpoint) = want
              /\ Len(g.sent) >= 1 => g.sent[1].url = want

\* C6: a PullManifest whose reference has an empty host has returned the
\* configuration error and sent no request, whatever the credentials.
C6_NoHostNoRequest ==
    \A t \in Threads :
        LET g == th[t]
        IN (g.op = "PullManifest" /\ g.opts.Tag.Host = "")
           => /\ g.pc = "done"
              /\ g.err = "Host is required, but not provided"
              /\ g.out.isNil
              /\ g.sent = <<>>

C6_Witness ==
    \E t \in Threads :
        /\ th[t].op = "PullManifest" /\ th[t].opts.Tag.Host = ""
        /\ th[t].opts.Tag.Namespace # ""
        /\ th[t].pc = "done"
        /\ ~cred.isNil

\* C7: once the HEAD request of PushManifest is answered with a status other
\* than 200, the invocation has sent exactly one PUT, to the URL of the HEAD
\* and with the serialized manifest as body; it returns success exactly when
\* that PUT is answered 201, and a PUT answer other than 201 and 401 gives
\* the push failure with the status text.  Overall PushManifest succeeds
\* exactly when the HEAD is answered 200 or the PUT is answered 201.
C7_WritePath ==
    \A t \in Threads :
        LET g == th[t]
        IN g.op = "PushManifest"
           => /\ (Len(g.got) >= 1 /\ g.got[1].code # 200)
                 => /\ Len(g.sent) = 2
                    /\ g.sent[1].method = "HEAD"
                    /\ g.sent[2].method = "PUT"
                    /\ g.sent[2].url = g.sent[1].url
                    /\ g.sent[2].body = Marshal(g.opts.Manifest)
                    /\ g.pc = "done"
                       => /\ g.err = NIL <=> Answered(g, 2, 201)
                          /\ (Len(g.got) = 2 /\ g.got[2].code \notin {201, 401})
                             => g.err = "failed to push manifest: "
                                        \o StatusText(g.got[2].code)
              /\ g.pc = "done"
                 => (g.err = NIL <=> (Answered(g, 1, 200) \/ Answered(g, 2, 201)))

C7_Witness ==
    \E t \in Threads :
        /\ th[t].op = "PushManifest" /\ th[t].pc = "done"
        /\ Answered(th[t], 1, 404) /\ Answered(th[t], 2, 201)
        /\ th[t].err = NIL

\* C8: whenever PullBlob, PullManifest or PushManifest has received a
\* response with status 401 (the response to PushManifest's HEAD included),
\* it returns the authentication failure.
C8_UnauthorizedOnAnyStep ==
    \A t \in Threads :
        LET g == th[t]
        IN (/\ g.op \in {"PullBlob", "PullManifest", "PushManifest"}
            /\ g.pc = "done"
            /\ \E i \in 1..Len(g.got) : g.got[i].code = 401)
           => g.err = AuthError

\* base64 of "u:p" and of "u2:p2", as RFC 4648 gives them
ExpectedBasic(username, password) ==
    IF username = UserU /\ password = PassP THEN "Basic dTpw"
    ELSE IF username = UserU2 /\ password = PassP2 THEN "Basic dTI6cDI="
    ELSE "?"

\* C9: a request issued while the client's credentials are those of the
\* latest SetBasicAuth(u, p) carries exactly one Authorization value,
\* "Basic " + base64(u:p): a later SetBasicAuth replaces the header of every
\* request issued after it.
C9_BasicAuthOnEveryRequest ==
    [][\A t \in Threads :
          (Len(th'[t].sent) > Len(th[t].sent) /\ lastSet'.by = "SetBasicAuth")
          => th'[t].sent[Len(th'[t].sent)].header.Authorization =
                <<ExpectedBasic(lastSet'.Username, lastSet'.Password)>>]_vars

\* both requests of a PushManifest, with a SetBasicAuth between them
C9_Witness ==
    \E t \in Threads :
        /\ th[t].op = "PushManifest" /\ Len(th[t].sent) = 2
        /\ th[t].sent[1].header.Authorization = <<"Basic dTpw">>
        /\ th[t].sent[2].header.Authorization = <<"Basic dTI6cDI=">>
        /\ lastSet.by = "SetBasicAuth"

\* C10: whenever the client holds credentials, the cached header value is
\* "Basic " + base64(Username:Password) of those credentials.
C10_HeaderMatchesCredentials ==
    ~cred.isNil
    => cred.encoded = BasicAuthHeader(cred.Username, cred.Password)

\* C11: whenever an operation has returned, it has closed the body of every
\* response it received: no response body is open while no operation is in
\* flight.
C11_BodiesClosed ==
    \A t \in Threads : th[t].pc \in {"idle", "done"} => th[t].open = 0

\* C12: a PushBlob whose upload-init request the registry answers with a
\* status other than 202 and 401, or whose PUT it answers with a status other
\* than 201 and 401, returns a failure that carries the status text of that
\* response, and never success.
C12_PushBlobUnexpectedStatus ==
    \A t \in Threads :
        LET g == th[t]
        IN (g.op = "PushBlob" /\ g.pc = "done" /\ g.opts.Tag.Host # "")
           => /\ (g.plan[1].ok /\ g.plan[1].code \notin {202, 401})
                 => g.err = "failed to push blob: " \o g.plan[1].status
              /\ (/\ Planned(g, 1, 202) /\ g.plan[1].location # <<>>
                  /\ g.plan[2].ok /\ g.plan[2].code \notin {201, 401})
                 => g.err = "failed to push blob: " \o g.plan[2].status

\* the methods of the requests g has sent, in order
Methods(g) == [i \in 1..Len(g.sent) |-> g.sent[i].method]

\* C13: PushBlob sends its PUT only after the upload-init request of the
\* same invocation was answered with 202; an invocation whose first request
\* could not be built, failed in transport or was answered otherwise returns
\* an error and has sent no PUT.
C13_AbortOnFailedStep ==
    \A t \in Threads :
        LET g == th[t]
        IN g.op = "PushBlob"
           => /\ \A i \in 1..Len(g.sent) :
                    g.sent[i].method = "PUT" => (i = 2 /\ Answered(g, 1, 202))
              /\ (g.pc = "done" /\ ~Answered(g, 1, 202))
                 => /\ g.err # NIL
                    /\ Len(g.sent) <= 1
                    /\ "PUT" \notin {g.sent[i].method : i \in 1..Len(g.sent)}

\* the first request cannot be built, against a registry that would answer 401
C13_Witness ==
    \E t \in Threads :
        /\ th[t].op = "PushBlob" /\ th[t].pc = "done"
        /\ th[t].opts.Tag.Host # ""
        /\ Planned(th[t], 1, 401)
        /\ th[t].sent = <<>>
        /\ th[t].err # NIL

\* C14: an invocation sends each request of its sequence at most once:
\* PullBlob and PullManifest at most one GET, PushBlob at most a GET and then
\* a PUT, PushManifest at most a HEAD and then a PUT; a request that fails in
\* transport is the last one, and the invocation returns an error.
C14_NoRetries ==
    \A t \in Threads :
        LET g == th[t]
        IN /\ g.op \in {"PullBlob", "PullManifest"}
              => Methods(g) \in {<<>>, <<"GET">>}
           /\ g.op = "PushBlob"
              => Methods(g) \in {<<>>, <<"GET">>, <<"GET", "PUT">>}
           /\ g.op = "PushManifest"
              => Methods(g) \in {<<>>, <<"HEAD">>, <<"HEAD", "PUT">>}
           /\ \A i \in 1..Len(g.sent) :
                 (~g.plan[i].ok /\ (i < Len(g.sent) \/ g.pc \notin {"do1", "do2"}))
                 => /\ Len(g.sent) = i
                    /\ Len(g.got) = i - 1
                    /\ g.pc = "done"
                    /\ g.err # NIL

\* the PUT of a PushManifest fails in transport, after an answered HEAD
C14_Witness ==
    \E t \in Threads :
        /\ th[t].op = "PushManifest" /\ th[t].pc = "done"
        /\ Len(th[t].sent) = 2 /\ Len(th[t].got) = 1
        /\ ~th[t].plan[2].ok
        /\ th[t].err # NIL

\* the literal parts of the endpoint formats that begin and end with a slash
Separators == {"/", "/v2/", "/manifests/", "/blobs/", "/blobs/uploads/"}

\* the URL has seg as a whole path segment
HasSegment(url, seg) ==
    \E i \in 2..(Len(url) - 1) :
        url[i] = seg /\ url[i - 1] \in Separators /\ url[i + 1] \in Separators

\* the URL has an empty path segment: two slashes with nothing between
EmptySegment(url) ==
    \E i \in 1..(Len(url) - 1) :
        url[i] \in Separators /\ url[i + 1] \in Separators

\* C15: the URL an operation builds for its requests has the namespace as a
\* path segment exactly when the namespace is not empty, and never an empty
\* segment; its scheme is http exactly when the operation's insecure flag is
\* set, and PullBlob and PullManifest always use https.  Every request sent
\* to that URL has that scheme.
C15_EndpointShape ==
    \A t \in Threads :
        LET g == th[t]
            scheme == IF g.op \in {"PushBlob", "PushManifest"}
                      THEN Scheme(g.opts.Insecure) ELSE "https"
        IN g.endpoint # <<>>
           => /\ HasSegment(g.endpoint, g.opts.Tag.Namespace)
                 <=> g.opts.Tag.Namespace # ""
              /\ ~EmptySegment(g.endpoint)
              /\ g.endpoint[1] = scheme
              /\ g.endpoint[1] = "http" <=> g.opts.Insecure
              /\ Len(g.sent) >= 1 => g.sent[1].scheme = scheme

\* an insecure PushManifest for a reference with a namespace has sent its
\* HEAD over http
C15_Witness ==
    \E t \in Threads :
        /\ th[t].op = "PushManifest" /\ th[t].opts.Insecure
        /\ th[t].opts.Tag.Namespace # ""
        /\ Len(th[t].sent) >= 1
        /\ th[t].sent[1].scheme = "http"
        /\ HasSegment(th[t].endpoint, th[t].opts.Tag.Namespace)

\* the operation of a started invocation up to its first client.Do
Begin(g) ==
    CASE g.op = "PushBlob" -> PushBlobBegin(g, CHOOSE a \in PtrAddrs : TRUE)
      [] g.op = "PullBlob" -> PullBlobBegin(g)
      [] g.op = "PullManifest" -> PullManifestBegin(g)
      [] g.op = "PushManifest" -> PushManifestBegin(g)

\* an invocation run to its return with no other goroutine around
RECURSIVE Run(_)
Run(g) ==
    IF g.pc \in {"do1", "do2"}
    THEN Run(Continue(g, Do(g.sent[Len(g.sent)], g.plan[Len(g.sent)])))
    ELSE g

Alone(op, opts, plan) == Run(Begin(Started(op, opts, plan)))

\* C16: while operations run interleaved on one client and the credentials
\* are not set meanwhile, each invocation sends the requests, with the
\* headers, and returns the outcome it would have sent and returned alone
\* against the same answers of the registry.
C16_AsIfAlone ==
    \A t \in Goroutines :
        LET g == th[t]
            alone == Alone(g.op, g.opts, g.plan)
        IN g.pc # "idle"
           => /\ Len(g.sent) <= Len(alone.sent)
              /\ g.sent = SubSeq(alone.sent, 1, Len(g.sent))
              /\ Len(g.got) <= Len(alone.got)
              /\ g.got = SubSeq(alone.got, 1, Len(g.got))
              /\ g.pc = "done"
                 => /\ g.sent = alone.sent
                    /\ g.err = alone.err
                    /\ g.out = alone.out

\* a PushManifest is between its HEAD and its PUT while a PullBlob of the
\* other goroutine is in flight, both with credentials
C16_Witness ==
    /\ th["g1"].op = "PushManifest" /\ th["g1"].pc = "do2"
    /\ th["g2"].op = "PullBlob" /\ th["g2"].pc = "do1"
    /\ th["g2"].sent[1].header.Authorization # <<>>

\* C17: a change the caller makes to its own variable v, in particular after
\* SetCredentials(v), leaves the credentials the client holds unchanged, as
\* GetCredentials returns them and as requests use them: the client still
\* holds the value v had when SetCredentials was called.
C17_SetCredentialsCopies ==
    [][LocalValue' # LocalValue
       => /\ cred' = cred
          /\ (lastSet.by = "SetCredentials" /\ held = "nil")
             => /\ cred'.Username = lastSet.Username
                /\ cred'.Password = lastSet.Password]_vars

\* the caller has a pointer from GetCredentials to the credentials that
\* SetCredentials(v) installed, and v has changed since
C17_Witness ==
    /\ lastSet.by = "SetCredentials"
    /\ held = "client"
    /\ cred.Username = lastSet.Username
    /\ cred.Username = UserU
    /\ local.Username = UserRoot

\* C18: no step of PushBlob, PullBlob, PullManifest or PushManifest, from
\* the call to the return, on any outcome, changes the credentials the
\* client holds.
C18_OperationsOnlyRead ==
    [][th' # th => (cred' = cred /\ held' = held /\ former' = former)]_vars

\* a PullBlob that sent the client's credentials has returned the
\* authentication failure, and the client still holds them
C18_Witness ==
    \E t \in Threads :
        /\ th[t].op = "PullBlob" /\ th[t].pc = "done"
        /\ th[t].err = AuthError
        /\ ~cred.isNil
        /\ th[t].sent[1].header.Authorization = <<cred.encoded>>

\* what PullBlob returns for a response with a status other than 200
PullBlobFailure(resp) ==
    IF resp.code = 401 THEN AuthError
    ELSE "failed to pull blob: " \o resp.status

\* C19, as claimed: PullBlob sends a single GET; answered 200 it returns the
\* complete response body and no error; answered otherwise it returns no
\* bytes and the authentication failure for 401, else the pull failure with
\* the status text.
C19_PullBlobMapping_Claimed ==
    \A t \in Threads :
        LET g == th[t]
        IN (g.op = "PullBlob" /\ g.pc = "done")
           => /\ Methods(g) \in {<<>>, <<"GET">>}
              /\ Len(g.got) = 1
                 => IF g.got[1].code = 200
                    THEN /\ g.err = NIL
                         /\ ~g.out.isNil
                         /\ g.out.bytes = g.got[1].body
                    ELSE /\ g.out.isNil
                         /\ g.err = PullBlobFailure(g.got[1])

\* C19: PullBlob sends a single GET; answered 200 it returns the complete
\* response body and no error if the body can be read to its end, and no
\* bytes with a read error if reading the body fails; answered otherwise it
\* returns no bytes and the authentication failure for 401, else the pull
\* failure with the status text.
C19_PullBlobMapping ==
    \A t \in Threads :
        LET g == th[t]
        IN (g.op = "PullBlob" /\ g.pc = "done")
           => /\ Methods(g) \in {<<>>, <<"GET">>}
              /\ Len(g.got) = 1
                 => IF g.got[1].code = 200
                    THEN IF g.got[1].readOK
                         THEN /\ g.err = NIL
                              /\ ~g.out.isNil
                              /\ g.out.bytes = g.got[1].body
                         ELSE /\ g.out.isNil
                              /\ g.err = "error reading blob: unexpected EOF"
                    ELSE /\ g.out.isNil
                         /\ g.err = PullBlobFailure(g.got[1])

\* a PullBlob answered 200 has returned the body it read
C19_Witness ==
    \E t \in Threads :
        /\ th[t].op = "PullBlob" /\ th[t].pc = "done"
        /\ Answered(th[t], 1, 200) /\ th[t].got[1].readOK
        /\ th[t].out.bytes = "test content"
        /\ th[t].err = NIL

\* C20: once the registry answers the upload-init request of PushBlob with
\* 202 and a Location, PushBlob sends a PUT to that Location with the query
\* parameter digest=<digest of the descriptor> added, the content as body,
\* Content-Type application/octet-stream and the content's length as
\* Content-Length.
C20_UploadRequestShape ==
    \A t \in Threads :
        LET g == th[t]
            location == Str(g.plan[1].location)
        IN (/\ g.op = "PushBlob" /\ g.pc = "done" /\ g.opts.Tag.Host # ""
            /\ Planned(g, 1, 202) /\ g.plan[1].location # <<>>)
           => /\ Methods(g) = <<"GET", "PUT">>
              /\ g.sent[2].url \in
                    {location \o "?digest=" \o DigestString(g.opts.Digest),
                     location \o "?digest=" \o QueryEscape(g.opts.Digest)}
              /\ g.sent[2].body = g.opts.File
              /\ g.sent[2].header.ContentType = <<"application/octet-stream">>
              /\ g.sent[2].header.ContentLength = <<Itoa(Len(g.opts.File))>>

\* host/namespace/name:version, host/name:version or name:version
Rendered(t) ==
    Str(IF t.Namespace # ""
        THEN <<t.Host, "/", t.Namespace, "/", t.Name, ":", t.Version>>
        ELSE IF t.Host # ""
        THEN <<t.Host, "/", t.Name, ":", t.Version>>
        ELSE <<t.Name, ":", t.Version>>)

\* C21: String() of a Tag is host/namespace/name:version when the namespace
\* is not empty, else host/name:version when the host is not empty, else
\* name:version; NamespacedName() is namespace/name when the namespace is
\* not empty, else name.
C21_ReferenceRendering ==
    /\ ref.String.called
       => /\ ref.String.result = Rendered(ref.tag)
          /\ (ref.tag = [Host |-> "registry.example.org", Name |-> "nginx",
                         Namespace |-> "library", Version |-> "latest"])
             => ref.String.result = "registry.example.org/library/nginx:latest"
          /\ (ref.tag = [Host |-> "localhost:5000", Name |-> "alpine",
                         Namespace |-> "", Version |-> "1.0"])
             => ref.String.result = "localhost:5000/alpine:1.0"
          /\ (ref.tag = [Host |-> "", Name |-> "nginx",
                         Namespace |-> "", Version |-> "latest"])
             => ref.String.result = "nginx:latest"
    /\ ref.NamespacedName.called
       => /\ ref.NamespacedName.result =
                Str(IF ref.tag.Namespace # ""
                    THEN <<ref.tag.Namespace, "/", ref.tag.Name>>
                    ELSE <<ref.tag.Name>>)
          /\ (ref.tag.Namespace = "library" /\ ref.tag.Name = "nginx")
             => ref.NamespacedName.result = "library/nginx"

\* both methods have returned for a reference with host and namespace
C21_Witness ==
    /\ ref.String.called /\ ref.NamespacedName.called
    /\ ref.tag.Host # "" /\ ref.tag.Namespace # ""
    /\ ref.String.result = "registry.example.org/library/nginx:latest"
    /\ ref.NamespacedName.result = "library/nginx"

\* the Authorization values of a request built while the client holds c
HeaderOf(c) == IF c.isNil THEN <<>> ELSE <<c.encoded>>

\* C22, as claimed: whenever a PushBlob or a PushManifest has sent two
\* requests, both carry the same Authorization value, or both none, also
\* when SetBasicAuth or SetCredentials ran between the two.
C22_SameCredentials_Claimed ==
    \A t \in Threads :
        LET g == th[t]
        IN (g.op \in {"PushBlob", "PushManifest"} /\ Len(g.sent) = 2)
           => g.sent[1].header.Authorization = g.sent[2].header.Authorization

\* C22: every request of a PushBlob or a PushManifest carries the
\* Authorization value of the credentials the client holds when the request
\* is built, none if it holds none; the second request carries the value of
\* the first whenever the credentials then held still give that value, so
\* whenever they were not changed between the two requests.
C22_SameCredentials ==
    [][\A t \in Threads :
          LET g == th[t]
              h == th'[t]
              n == Len(h.sent)
          IN (h.op \in {"PushBlob", "PushManifest"} /\ n > Len(g.sent))
             => /\ h.sent[n].header.Authorization = HeaderOf(cred)
                /\ (n = 2 /\ g.sent[1].header.Authorization = HeaderOf(cred))
                   => h.sent[2].header.Authorization =
                         h.sent[1].header.Authorization]_vars

\* both requests of a PushManifest went out under the same credentials
C22_Witness ==
    \E t \in Threads :
        /\ th[t].op = "PushManifest" /\ Len(th[t].sent) = 2
        /\ th[t].sent[1].header.Authorization = <<"Basic dTI6cDI=">>
        /\ th[t].sent[2].header.Authorization = <<"Basic dTI6cDI=">>
        /\ HeaderOf(cred) = <<"Basic dTI6cDI=">>

\* C23: once ExecuteWithStream is called it eventually returns, whatever the
\* child writes to its standard output and its standard error and in
\* whatever order, the child being one that exits once all its output is
\* consumed; and it returns an error when the child exited non-zero.
C23_RunnerReturns ==
    /\ (proc.pc # "idle") ~> (proc.pc = "returned")
    /\ [](proc.pc = "returned" /\ proc.child = "exited" /\ proc.exit # 0
          => proc.err # NIL)

====
